---- MODULE Spec2Model ----
(***************************************************************************)
(* Hashed-timelock escrow of contracts/swap (SwapContract) together with   *)
(* the token ledger of contracts/token (Token) that it moves funds on.     *)
(*                                                                         *)
(* Every contract entry point is one action.  A Soroban invocation is a    *)
(* transaction: a panic anywhere in it (panic!, unwrap of None, a failed   *)
(* require_auth, a panic in a contract it calls) aborts the invocation and *)
(* discards every storage write and every event it made.  An action that   *)
(* panics therefore leaves the ledger as it was and only records the       *)
(* outcome in `result`.                                                    *)
(***************************************************************************)
EXTENDS Integers, Sequences, FiniteSets, TLC

\* ---------------------------------------------------------------- bounds
MaxTime == 2          \* ledger timestamps range over 0..MaxTime
MaxEvents == 6        \* Spec: calls are made while the event log has room
MaxEventsWellFormed == 7   \* SpecWellFormed: the same
MaxSupply == 2        \* mint stops at this total supply
MaxEventsLive == 5    \* SpecLive: create_escrow and mint while the log has room
MaxEventsReads == 4   \* SpecReads: calls are made while the event log has room
MaxEventsToken == 2   \* SpecToken: calls are made while the event log has room
MaxSecretLen == 3     \* SpecHashlock: longest byte string tried as a secret

\* ---------------------------------------------------------------- inputs
Users == {"alice", "bob"}                \* principals that can sign a call
Contract == "swap"                       \* env.current_contract_address()
TokenAdmin == "admin"                    \* DataKey::Admin of the token
Callers == Users \cup {TokenAdmin}
Makers == {"alice"}                      \* the maker argument of create_escrow
Addresses == Callers \cup {Contract}
Takers == {"bob", Contract}
Tokens == {"token"}
Amounts == {-1, 0, 1, 2}
MintAmounts == {2}
Secrets == {"s1", "s2"}
Hashlocks == {"s1"}
Starts == {0, 1}
Ends == {0, 1}
Byte == {0, 1}                           \* values of one byte of a Bytes
EscrowIds == {"escrow_", "escrow_id"}    \* keys a caller may ask for

VARIABLES
    now,           \* env.ledger().timestamp()
    escrow,        \* persistent DataKey::Escrow(id)      -> Immutables
    state,         \* persistent DataKey::EscrowState(id) -> EscrowState
    balance,       \* token: DataKey::Balance(addr), read with unwrap_or(0)
    total_supply,  \* token: DataKey::TotalSupply
    events,        \* env.events(): everything published, in commit order
    result,        \* outcome of the last invocation
    timelock,      \* the Timelock value built by Timelock::new, if any
    probe          \* what the last read-only call returned

vars == <<now, escrow, state, balance, total_supply, events, result,
          timelock, probe>>

\* ---------------------------------------------------------------- types
Immutables(maker, taker, token, amount, hashlock, timelock_start, timelock_end) ==
    [maker |-> maker, taker |-> taker, token |-> token, amount |-> amount,
     hashlock |-> hashlock, timelock_start |-> timelock_start,
     timelock_end |-> timelock_end]

EscrowState == {"Active", "Withdrawn", "Cancelled"}

\* ---------------------------------------------------------------- helpers
generate_escrow_id(maker, taker, token, amount) == "escrow_"

verify_hashlock(hashlock, secret) == secret = hashlock

\* Token::balance
balance_of(bal, account) == bal[account]

\* Token::transfer, the panic: from.require_auth() passes for the signer of
\* the transaction and for the contract that makes the call itself.
transfer_panic(bal, caller, invoker, from, amount) ==
    IF from # caller /\ from # invoker THEN "require_auth"
    ELSE IF balance_of(bal, from) < amount THEN "Insufficient balance"
    ELSE "ok"

\* Token::transfer, the two balance writes (to_balance is read before the
\* first write)
transfer_balances(bal, from, to, amount) ==
    LET from_balance == balance_of(bal, from)
        to_balance == balance_of(bal, to)
        after_from == [bal EXCEPT ![from] = from_balance - amount]
    IN  [after_from EXCEPT ![to] = to_balance + amount]

transfer_event(from, to, amount) ==
    [contract |-> "token", topic |-> "transfer", data |-> <<from, to, amount>>]

Outcome(op, id, err) == [op |-> op, id |-> id, err |-> err]

\* a panicking invocation: every write of the invocation is discarded
Abort(op, id, err) ==
    /\ result' = Outcome(op, id, err)
    /\ UNCHANGED <<now, escrow, state, balance, total_supply, events>>

\* the value a read-only call hands back
Returned(fn, out) == [fn |-> fn, out |-> out]

\* ---------------------------------------------------------------- Init
Init ==
    /\ now = 0
    /\ escrow = <<>>
    /\ state = <<>>
    /\ balance = [a \in Addresses |-> 0]
    /\ total_supply = 0
    /\ events = <<>>
    /\ result = Outcome("initialize", "", "ok")
    /\ timelock = <<>>
    /\ probe = Returned("", <<>>)

\* ---------------------------------------------------------------- swap
create_escrow_panic(caller, maker, token, amount) ==
    IF maker # caller THEN "require_auth"
    ELSE transfer_panic(balance, caller, Contract, maker, amount)

\* create_escrow calling try_transfer and ignoring the error: the record and
\* the Active status stay although no deposit was taken
create_escrow_no_rollback(caller, maker, taker, token, amount, hashlock, timelock_start, timelock_end) ==
    LET escrow_id == generate_escrow_id(maker, taker, token, amount)
        immutables == Immutables(maker, taker, token, amount, hashlock,
                                 timelock_start, timelock_end)
        err == create_escrow_panic(caller, maker, token, amount)
    IN  IF err = "require_auth" THEN Abort("create_escrow", "", err)
        ELSE
          /\ escrow' = (escrow_id :> immutables) @@ escrow
          /\ state' = (escrow_id :> "Active") @@ state
          /\ balance' = IF err = "ok"
                        THEN transfer_balances(balance, maker, Contract, amount)
                        ELSE balance
          /\ events' = IF err = "ok"
                THEN events \o
                  <<transfer_event(maker, Contract, amount),
                    [contract |-> Contract, topic |-> "escrow_created",
                     data |-> <<escrow_id, maker, taker, token, amount>>]>>
                ELSE events
          /\ result' = Outcome("create_escrow", IF err = "ok" THEN escrow_id ELSE "", err)
          /\ UNCHANGED <<now, total_supply>>

create_escrow(caller, maker, taker, token, amount, hashlock, timelock_start, timelock_end) ==
    LET escrow_id == generate_escrow_id(maker, taker, token, amount)
        immutables == Immutables(maker, taker, token, amount, hashlock,
                                 timelock_start, timelock_end)
        err == create_escrow_panic(caller, maker, token, amount)
    IN  IF err # "ok" THEN Abort("create_escrow", "", err)
        ELSE
          /\ escrow' = (escrow_id :> immutables) @@ escrow
          /\ state' = (escrow_id :> "Active") @@ state
          /\ balance' = transfer_balances(balance, maker, Contract, amount)
          /\ events' = events \o
                <<transfer_event(maker, Contract, amount),
                  [contract |-> Contract, topic |-> "escrow_created",
                   data |-> <<escrow_id, maker, taker, token, amount>>]>>
          /\ result' = Outcome("create_escrow", escrow_id, "ok")
          /\ UNCHANGED <<now, total_supply>>

\* withdraw without the check of lines 84-86
withdraw_panic_no_state_check(caller, escrow_id, secret) ==
    IF escrow_id \notin DOMAIN escrow THEN "unwrap"
    ELSE IF escrow_id \notin DOMAIN state THEN "unwrap"
    ELSE LET immutables == escrow[escrow_id] IN
      IF now < immutables.timelock_start \/ now > immutables.timelock_end
        THEN "Outside timelock window"
      ELSE IF ~verify_hashlock(immutables.hashlock, secret) THEN "Invalid secret"
      ELSE transfer_panic(balance, caller, Contract, Contract, immutables.amount)

\* withdraw checking only the end of the window
withdraw_panic_no_start_check(caller, escrow_id, secret) ==
    IF escrow_id \notin DOMAIN escrow THEN "unwrap"
    ELSE IF escrow_id \notin DOMAIN state THEN "unwrap"
    ELSE LET immutables == escrow[escrow_id] IN
      IF state[escrow_id] # "Active" THEN "Escrow not active"
      ELSE IF now > immutables.timelock_end THEN "Outside timelock window"
      ELSE IF ~verify_hashlock(immutables.hashlock, secret) THEN "Invalid secret"
      ELSE transfer_panic(balance, caller, Contract, Contract, immutables.amount)

withdraw_panic(caller, escrow_id, secret) ==
    IF escrow_id \notin DOMAIN escrow THEN "unwrap"
    ELSE IF escrow_id \notin DOMAIN state THEN "unwrap"
    ELSE LET immutables == escrow[escrow_id] IN
      IF state[escrow_id] # "Active" THEN "Escrow not active"
      ELSE IF now < immutables.timelock_start \/ now > immutables.timelock_end
        THEN "Outside timelock window"
      ELSE IF ~verify_hashlock(immutables.hashlock, secret) THEN "Invalid secret"
      ELSE transfer_panic(balance, caller, Contract, Contract, immutables.amount)

\* withdraw calling try_transfer and ignoring the error: the status is set
\* and the event published although nothing was paid
withdraw_try_transfer(caller, escrow_id, secret) ==
    LET err == withdraw_panic(caller, escrow_id, secret) IN
    IF err \notin {"ok", "Insufficient balance"} THEN Abort("withdraw", escrow_id, err)
    ELSE LET immutables == escrow[escrow_id] IN
      /\ balance' = IF err = "ok"
                    THEN transfer_balances(balance, Contract, immutables.taker,
                                           immutables.amount)
                    ELSE balance
      /\ state' = [state EXCEPT ![escrow_id] = "Withdrawn"]
      /\ events' = events \o
            <<transfer_event(Contract, immutables.taker, immutables.amount),
              [contract |-> Contract, topic |-> "escrow_withdrawn",
               data |-> <<escrow_id, immutables.taker, immutables.amount, secret>>]>>
      /\ result' = Outcome("withdraw", escrow_id, "ok")
      /\ UNCHANGED <<now, escrow, total_supply>>

withdraw(caller, escrow_id, secret) ==
    LET err == withdraw_panic(caller, escrow_id, secret) IN
    IF err # "ok" THEN Abort("withdraw", escrow_id, err)
    ELSE LET immutables == escrow[escrow_id] IN
      /\ balance' = transfer_balances(balance, Contract, immutables.taker,
                                      immutables.amount)
      /\ state' = [state EXCEPT ![escrow_id] = "Withdrawn"]
      /\ events' = events \o
            <<transfer_event(Contract, immutables.taker, immutables.amount),
              [contract |-> Contract, topic |-> "escrow_withdrawn",
               data |-> <<escrow_id, immutables.taker, immutables.amount, secret>>]>>
      /\ result' = Outcome("withdraw", escrow_id, "ok")
      /\ UNCHANGED <<now, escrow, total_supply>>

\* cancel with the expiry test off by one (< for <=)
cancel_panic_off_by_one(caller, escrow_id) ==
    IF escrow_id \notin DOMAIN escrow THEN "unwrap"
    ELSE IF escrow_id \notin DOMAIN state THEN "unwrap"
    ELSE LET immutables == escrow[escrow_id] IN
      IF state[escrow_id] # "Active" THEN "Escrow not active"
      ELSE IF now < immutables.timelock_end THEN "Timelock not expired"
      ELSE IF immutables.maker # caller THEN "require_auth"
      ELSE transfer_panic(balance, caller, Contract, Contract, immutables.amount)

\* cancel without immutables.maker.require_auth() (line 137)
cancel_panic_no_auth(caller, escrow_id) ==
    IF escrow_id \notin DOMAIN escrow THEN "unwrap"
    ELSE IF escrow_id \notin DOMAIN state THEN "unwrap"
    ELSE LET immutables == escrow[escrow_id] IN
      IF state[escrow_id] # "Active" THEN "Escrow not active"
      ELSE IF now <= immutables.timelock_end THEN "Timelock not expired"
      ELSE transfer_panic(balance, Contract, Contract, Contract, immutables.amount)

cancel_panic(caller, escrow_id) ==
    IF escrow_id \notin DOMAIN escrow THEN "unwrap"
    ELSE IF escrow_id \notin DOMAIN state THEN "unwrap"
    ELSE LET immutables == escrow[escrow_id] IN
      IF state[escrow_id] # "Active" THEN "Escrow not active"
      ELSE IF now <= immutables.timelock_end THEN "Timelock not expired"
      ELSE IF immutables.maker # caller THEN "require_auth"
      ELSE transfer_panic(balance, caller, Contract, Contract, immutables.amount)

\* cancel without env.events().publish (lines 146-150)
cancel_no_event(caller, escrow_id) ==
    LET err == cancel_panic(caller, escrow_id) IN
    IF err # "ok" THEN Abort("cancel", escrow_id, err)
    ELSE LET immutables == escrow[escrow_id] IN
      /\ balance' = transfer_balances(balance, Contract, immutables.maker,
                                      immutables.amount)
      /\ state' = [state EXCEPT ![escrow_id] = "Cancelled"]
      /\ events' = Append(events,
            transfer_event(Contract, immutables.maker, immutables.amount))
      /\ result' = Outcome("cancel", escrow_id, "ok")
      /\ UNCHANGED <<now, escrow, total_supply>>

cancel(caller, escrow_id) ==
    LET err == cancel_panic(caller, escrow_id) IN
    IF err # "ok" THEN Abort("cancel", escrow_id, err)
    ELSE LET immutables == escrow[escrow_id] IN
      /\ balance' = transfer_balances(balance, Contract, immutables.maker,
                                      immutables.amount)
      /\ state' = [state EXCEPT ![escrow_id] = "Cancelled"]
      /\ events' = events \o
            <<transfer_event(Contract, immutables.maker, immutables.amount),
              [contract |-> Contract, topic |-> "escrow_cancelled",
               data |-> <<escrow_id, immutables.maker, immutables.amount>>]>>
      /\ result' = Outcome("cancel", escrow_id, "ok")
      /\ UNCHANGED <<now, escrow, total_supply>>

\* ---------------------------------------------------------------- token
mint(caller, to, amount) ==
    IF caller # TokenAdmin THEN Abort("mint", "", "require_auth")
    ELSE
      /\ balance' = [balance EXCEPT ![to] = balance_of(balance, to) + amount]
      /\ total_supply' = total_supply + amount
      /\ events' = Append(events,
            [contract |-> "token", topic |-> "mint", data |-> <<to, amount>>])
      /\ result' = Outcome("mint", "", "ok")
      /\ UNCHANGED <<now, escrow, state>>

\* a transfer that moves what the balance covers instead of panicking
transfer_truncating(caller, from, to, amount) ==
    LET moved == IF balance_of(balance, from) < amount
                 THEN balance_of(balance, from) ELSE amount
    IN  IF from # caller THEN Abort("transfer", "", "require_auth")
        ELSE
          /\ balance' = transfer_balances(balance, from, to, moved)
          /\ events' = Append(events, transfer_event(from, to, moved))
          /\ result' = Outcome("transfer", "", "ok")
          /\ UNCHANGED <<now, escrow, state, total_supply>>

\* Token::transfer called directly: the signer is the only authorizer
transfer(caller, from, to, amount) ==
    LET err == transfer_panic(balance, caller, caller, from, amount)
    IN  IF err # "ok" THEN Abort("transfer", "", err)
        ELSE
          /\ balance' = transfer_balances(balance, from, to, amount)
          /\ events' = Append(events, transfer_event(from, to, amount))
          /\ result' = Outcome("transfer", "", "ok")
          /\ UNCHANGED <<now, escrow, state, total_supply>>

\* ---------------------------------------------------------------- ledger
Tick ==
    /\ now < MaxTime
    /\ now' = now + 1
    /\ UNCHANGED <<escrow, state, balance, total_supply, events, result>>
    /\ UNCHANGED <<timelock, probe>>

\* ---------------------------------------------------------------- Next
CreateEscrowWith(max, amounts, starts, ends) ==
    /\ Len(events) + 2 <= max
    /\ \E caller \in Users, maker \in Makers, taker \in Takers, token \in Tokens,
          amount \in amounts, hashlock \in Hashlocks,
          timelock_start \in starts, timelock_end \in ends :
          create_escrow(caller, maker, taker, token, amount, hashlock,
                        timelock_start, timelock_end)
    /\ UNCHANGED <<timelock, probe>>

WithdrawWith(max) ==
    /\ Len(events) + 2 <= max
    /\ \E caller \in Users, escrow_id \in EscrowIds, secret \in Secrets :
          withdraw(caller, escrow_id, secret)
    /\ UNCHANGED <<timelock, probe>>

CancelWith(max) ==
    /\ Len(events) + 2 <= max
    /\ \E caller \in Users, escrow_id \in EscrowIds : cancel(caller, escrow_id)
    /\ UNCHANGED <<timelock, probe>>

MintWith(max) ==
    /\ Len(events) + 1 <= max
    /\ \E caller \in Callers, to \in Makers, amount \in MintAmounts :
          /\ total_supply + amount <= MaxSupply
          /\ mint(caller, to, amount)
    /\ UNCHANGED <<timelock, probe>>

CreateEscrow == CreateEscrowWith(MaxEvents, Amounts, Starts, Ends)
Withdraw == WithdrawWith(MaxEvents)
Cancel == CancelWith(MaxEvents)
Mint == MintWith(MaxEvents)

Next == CreateEscrow \/ Withdraw \/ Cancel \/ Mint \/ Tick

Spec == Init /\ [][Next]_vars

\* create_escrow called only with the parameters the interface allows:
\* amount > 0 and timelock_start <= timelock_end
CreateEscrowWellFormed ==
    CreateEscrowWith(MaxEventsWellFormed, {a \in Amounts : a > 0}, {0}, Ends)
WithdrawWellFormed == WithdrawWith(MaxEventsWellFormed)
CancelWellFormed == CancelWith(MaxEventsWellFormed)
MintWellFormed == MintWith(MaxEventsWellFormed)

NextWellFormed ==
    CreateEscrowWellFormed \/ WithdrawWellFormed \/ CancelWellFormed
        \/ MintWellFormed \/ Tick

SpecWellFormed == Init /\ [][NextWellFormed]_vars

\* The contract under the scheduling of claim C13: create_escrow is called
\* with well-formed parameters while the log has room, withdraw and cancel
\* are never held back, the ledger time keeps advancing and a maker keeps
\* retrying cancel.
CreateEscrowLive ==
    CreateEscrowWith(MaxEventsLive, {a \in Amounts : a > 0}, {0}, Ends)
WithdrawLive == WithdrawWith(3 * MaxEventsLive)
CancelLive == CancelWith(3 * MaxEventsLive)
MintLive == MintWith(MaxEventsLive)

MakerCancel ==
    /\ \E id \in EscrowIds : id \in DOMAIN escrow /\ cancel(escrow[id].maker, id)
    /\ UNCHANGED <<timelock, probe>>

NextLive == CreateEscrowLive \/ WithdrawLive \/ CancelLive \/ MintLive \/ Tick

SpecLive ==
    Init /\ [][NextLive]_vars /\ WF_vars(Tick) /\ WF_vars(MakerCancel)

\* ---------------------------------------------------------------- token
\* the token contract on its own: mint and transfer called directly, with
\* amounts of either sign (amount is an i128 in both)
TokenMint ==
    /\ Len(events) + 1 <= MaxEventsToken
    /\ \E caller \in Callers, to \in Addresses, amount \in Amounts :
          /\ total_supply + amount <= MaxSupply
          /\ mint(caller, to, amount)
    /\ UNCHANGED <<timelock, probe>>

TokenTransfer ==
    /\ Len(events) + 1 <= MaxEventsToken
    /\ \E caller \in Callers, from \in Addresses, to \in Addresses,
          amount \in Amounts :
          transfer(caller, from, to, amount)
    /\ UNCHANGED <<timelock, probe>>

NextToken == TokenMint \/ TokenTransfer

SpecToken == Init /\ [][NextToken]_vars

\* ---------------------------------------------------------------- timelock
Timelock_new(start, end) == [start |-> start, end |-> end]

is_active(self, current_time) ==
    current_time >= self.start /\ current_time <= self.end

is_expired(self, current_time) == current_time > self.end

is_before_start(self, current_time) == current_time < self.start

SwapUnchanged ==
    UNCHANGED <<escrow, state, balance, total_supply, events, result>>

TimelockNew ==
    /\ \E start \in 0..MaxTime, end \in 0..MaxTime :
          timelock' = <<Timelock_new(start, end)>>
    /\ UNCHANGED <<now, probe>>
    /\ SwapUnchanged

\* the three predicates of the Timelock read at the current ledger time
TimelockQuery ==
    /\ timelock # <<>>
    /\ probe' = Returned("Timelock",
            [is_before_start |-> is_before_start(timelock[1], now),
             is_active |-> is_active(timelock[1], now),
             is_expired |-> is_expired(timelock[1], now)])
    /\ UNCHANGED <<now, timelock>>
    /\ SwapUnchanged

NextTimelock == TimelockNew \/ TimelockQuery \/ Tick

SpecTimelock == Init /\ [][NextTimelock]_vars

\* ---------------------------------------------------------------- hashlock
\* secrets and hashlocks are Bytes: byte strings of any length
ByteStrings == UNION {[1..n -> Byte] : n \in 0..MaxSecretLen}

create_hashlock_constant(secret) == <<>>

create_hashlock(secret) == secret

HashlockValidator_new(expected_hash) == [expected_hash |-> expected_hash]

validate(self, secret) == secret = self.expected_hash

\* commit to one secret, then check a candidate against the commitment both
\* with the validator and with the check that withdraw uses
HashlockCheck ==
    /\ \E secret \in ByteStrings, candidate \in ByteStrings :
          LET hashlock == create_hashlock(secret)
              validator == HashlockValidator_new(hashlock)
          IN  probe' = Returned("Hashlock",
                  [secret |-> secret,
                   candidate |-> candidate,
                   validate |-> validate(validator, candidate),
                   verify_hashlock |-> verify_hashlock(hashlock, candidate)])
    /\ UNCHANGED <<now, timelock>>
    /\ SwapUnchanged

NextHashlock == HashlockCheck

SpecHashlock == Init /\ [][NextHashlock]_vars

\* ---------------------------------------------------------------- reads
\* an Option: <<>> is None, <<v>> is Some(v)
get_escrow_first_key(escrow_id) ==
    IF "escrow_" \in DOMAIN escrow THEN <<escrow["escrow_"]>> ELSE <<>>

get_escrow(escrow_id) ==
    IF escrow_id \in DOMAIN escrow THEN <<escrow[escrow_id]>> ELSE <<>>

get_escrow_state(escrow_id) ==
    IF escrow_id \in DOMAIN state THEN <<state[escrow_id]>> ELSE <<>>

GetEscrow ==
    /\ \E escrow_id \in EscrowIds :
          /\ probe' = Returned("get_escrow", get_escrow(escrow_id))
          /\ result' = Outcome("get_escrow", escrow_id, "ok")
    /\ UNCHANGED <<now, escrow, state, balance, total_supply, events, timelock>>

GetEscrowState ==
    /\ \E escrow_id \in EscrowIds :
          /\ probe' = Returned("get_escrow_state", get_escrow_state(escrow_id))
          /\ result' = Outcome("get_escrow_state", escrow_id, "ok")
    /\ UNCHANGED <<now, escrow, state, balance, total_supply, events, timelock>>

CreateEscrowReads == CreateEscrowWith(MaxEventsReads, Amounts, Starts, Ends)
WithdrawReads == WithdrawWith(MaxEventsReads)
CancelReads == CancelWith(MaxEventsReads)
MintReads == MintWith(MaxEventsReads)

NextReads ==
    \/ CreateEscrowReads \/ WithdrawReads \/ CancelReads \/ MintReads \/ Tick
    \/ GetEscrow \/ GetEscrowState

SpecReads == Init /\ [][NextReads]_vars

\* ================================================================ claims
\* The error kinds of the specification (section 7), read off the panic
\* that ends the invocation.
ErrorKind(err) ==
    CASE err = "unwrap" -> "NotFound"
      [] err = "Escrow not active" -> "InvalidState"
      [] err = "Outside timelock window" -> "WindowViolation"
      [] err = "Timelock not expired" -> "WindowViolation"
      [] err = "Invalid secret" -> "InvalidSecret"
      [] err = "require_auth" -> "Unauthorized"
      [] err = "Insufficient balance" -> "TransferFailed"
      [] OTHER -> err

Terminal == {"Withdrawn", "Cancelled"}
Known(id) == id \in DOMAIN escrow /\ id \in DOMAIN state
StatusOf(st, id) == IF id \in DOMAIN st THEN st[id] ELSE "absent"
LedgerUnchanged == UNCHANGED <<escrow, state, balance, total_supply, events>>
CreatedEvents == SelectSeq(events, LAMBDA e : e.topic = "escrow_created")

\* amount moved from `from` to `to`: debited once, credited once, every
\* other balance as before (nothing changes when from = to)
Moved(from, to, amount) ==
    \A a \in Addresses :
        balance'[a] = balance[a] - (IF a = from THEN amount ELSE 0)
                                 + (IF a = to THEN amount ELSE 0)

\* C1: the escrow ids returned by successful create_escrow calls (the id of
\* each escrow_created event) are pairwise distinct.
C1_IdsPairwiseDistinct ==
    \A i, j \in DOMAIN CreatedEvents :
        i # j => CreatedEvents[i].data[1] # CreatedEvents[j].data[1]

\* C2: a record stored under an escrow id is never changed or removed by a
\* later create_escrow, withdraw or cancel.
C2_RecordImmutable ==
    [][\A id \in DOMAIN escrow : id \in DOMAIN escrow' /\ escrow'[id] = escrow[id]]_vars

\* C3: the status of an id changes only absent -> Active, Active -> Withdrawn
\* or Active -> Cancelled.
C3_StatusTransitions ==
    [][\A id \in EscrowIds :
          LET old == StatusOf(state, id)
              new == StatusOf(state', id)
          IN  \/ old = new
              \/ <<old, new>> \in {<<"absent", "Active">>, <<"Active", "Withdrawn">>,
                                   <<"Active", "Cancelled">>}]_vars

\* C4: on an escrow whose status is Withdrawn or Cancelled every withdraw and
\* every cancel fails with InvalidState and changes neither the record, the
\* status, a balance nor the event log.
C4_TerminalRejects ==
    [][\A caller \in Users, id \in EscrowIds, secret \in Secrets :
          (Known(id) /\ state[id] \in Terminal) =>
              /\ withdraw(caller, id, secret) =>
                    (ErrorKind(result'.err) = "InvalidState" /\ LedgerUnchanged)
              /\ cancel(caller, id) =>
                    (ErrorKind(result'.err) = "InvalidState" /\ LedgerUnchanged)]_vars

C4_Witness ==
    /\ result.op \in {"withdraw", "cancel"}
    /\ result.err = "Escrow not active"
    /\ Known(result.id) /\ state[result.id] \in Terminal

\* C5: withdraw succeeds exactly when the escrow is known and Active, the
\* ledger time is inside [timelock_start, timelock_end], the secret verifies
\* and the custody balance covers the amount; a successful withdraw moves
\* exactly amount from the contract to the taker and sets Withdrawn.
WithdrawAllowed(id, secret) ==
    /\ Known(id) /\ state[id] = "Active"
    /\ escrow[id].timelock_start <= now /\ now <= escrow[id].timelock_end
    /\ secret = escrow[id].hashlock
    /\ balance[Contract] >= escrow[id].amount

C5_Withdraw ==
    [][\A caller \in Users, id \in EscrowIds, secret \in Secrets :
          withdraw(caller, id, secret) =>
              /\ result'.err = "ok" <=> WithdrawAllowed(id, secret)
              /\ result'.err = "ok" =>
                    /\ Moved(Contract, escrow[id].taker, escrow[id].amount)
                    /\ state'[id] = "Withdrawn"]_vars

\* C6: cancel succeeds exactly when the escrow is known and Active, the
\* ledger time is past timelock_end, the caller is the maker and the custody
\* balance covers the amount; a successful cancel moves exactly amount from
\* the contract to the maker and sets Cancelled.
CancelAllowed(caller, id) ==
    /\ Known(id) /\ state[id] = "Active"
    /\ now > escrow[id].timelock_end
    /\ caller = escrow[id].maker
    /\ balance[Contract] >= escrow[id].amount

C6_Cancel ==
    [][\A caller \in Users, id \in EscrowIds :
          cancel(caller, id) =>
              /\ result'.err = "ok" <=> CancelAllowed(caller, id)
              /\ result'.err = "ok" =>
                    /\ Moved(Contract, escrow[id].maker, escrow[id].amount)
                    /\ state'[id] = "Cancelled"
                    /\ escrow' = escrow]_vars

C6_Witness ==
    /\ result = Outcome("cancel", "escrow_", "ok")
    /\ state["escrow_"] = "Cancelled"
    /\ escrow["escrow_"].amount > 0
    /\ balance[escrow["escrow_"].maker] > 0

\* C7: when the token transfer of a withdraw or a cancel fails, the call
\* fails and changes no status, no balance and no event; a status becomes
\* Withdrawn or Cancelled in exactly the steps that publish the token's
\* transfer out of custody followed by the escrow's event.
TransferFails(id) == Known(id) /\ balance[Contract] < escrow[id].amount

PaidOut(id, status, topic, to) ==
    /\ Len(events') = Len(events) + 2
    /\ SubSeq(events', 1, Len(events)) = events
    /\ events'[Len(events) + 1] = transfer_event(Contract, to, escrow[id].amount)
    /\ events'[Len(events) + 2].topic = topic
    /\ events'[Len(events) + 2].data[1] = id
    /\ balance' = transfer_balances(balance, Contract, to, escrow[id].amount)

C7_Atomic ==
    [][\A id \in EscrowIds :
          /\ \A caller \in Users, secret \in Secrets :
                (TransferFails(id) /\ withdraw(caller, id, secret)) =>
                    (result'.err # "ok" /\ LedgerUnchanged)
          /\ \A caller \in Users :
                (TransferFails(id) /\ cancel(caller, id)) =>
                    (result'.err # "ok" /\ LedgerUnchanged)
          /\ (StatusOf(state, id) # "Withdrawn" /\ StatusOf(state', id) = "Withdrawn")
                => PaidOut(id, "Withdrawn", "escrow_withdrawn", escrow[id].taker)
          /\ (StatusOf(state, id) # "Cancelled" /\ StatusOf(state', id) = "Cancelled")
                => PaidOut(id, "Cancelled", "escrow_cancelled", escrow[id].maker)
          /\ (result' = Outcome("withdraw", id, "ok") /\ events' # events)
                => (state[id] = "Active" /\ state'[id] = "Withdrawn")
          /\ (result' = Outcome("cancel", id, "ok") /\ events' # events)
                => (state[id] = "Active" /\ state'[id] = "Cancelled")]_vars

C7_Witness ==
    /\ result.op \in {"withdraw", "cancel"}
    /\ result.err = "Insufficient balance"
    /\ Known(result.id) /\ state[result.id] = "Active"
    /\ balance[Contract] < escrow[result.id].amount

\* C8: a create_escrow whose transfer from the maker fails leaves the store
\* (with any record already under the id), the balances and the event log as
\* they were.
C8_CreateAllOrNothing ==
    [][result'.op = "create_escrow" =>
        \A maker \in Makers, amount \in Amounts :
          balance[maker] < amount =>
            \A taker \in Takers, token \in Tokens, hashlock \in Hashlocks,
               timelock_start \in Starts, timelock_end \in Ends :
                create_escrow(maker, maker, taker, token, amount, hashlock,
                              timelock_start, timelock_end)
                => (ErrorKind(result'.err) = "TransferFailed" /\ LedgerUnchanged)]_vars

C8_Witness ==
    /\ result = Outcome("create_escrow", "", "Insufficient balance")
    /\ Known("escrow_")

\* C9: create_escrow with amount <= 0 or timelock_start > timelock_end fails
\* and persists nothing, so every stored record has amount > 0 and
\* timelock_start <= timelock_end.
C9_InvalidParametersRejected ==
    [][/\ \A id \in DOMAIN escrow' :
            escrow'[id].amount > 0 /\ escrow'[id].timelock_start <= escrow'[id].timelock_end
       /\ result'.op = "create_escrow" =>
            \A maker \in Makers, amount \in Amounts,
               timelock_start \in Starts, timelock_end \in Ends :
              (amount <= 0 \/ timelock_start > timelock_end) =>
                \A taker \in Takers, token \in Tokens, hashlock \in Hashlocks :
                    create_escrow(maker, maker, taker, token, amount, hashlock,
                                  timelock_start, timelock_end)
                    => (ErrorKind(result'.err) = "InvalidParameters"
                        /\ LedgerUnchanged)]_vars

\* C10: a withdraw on an unknown id, outside the window or with a wrong
\* secret, and a cancel on an unknown id, not past timelock_end or by another
\* caller than the maker, fails as NotFound, WindowViolation, InvalidSecret
\* or Unauthorized and changes nothing.
Fails(kind) == ErrorKind(result'.err) = kind /\ LedgerUnchanged

C10_FailedCallChangesNothing ==
    [][\A caller \in Users, id \in EscrowIds :
        /\ \A secret \in Secrets : withdraw(caller, id, secret) =>
            /\ ~Known(id) => Fails("NotFound")
            /\ (Known(id) /\ state[id] = "Active") =>
                LET im == escrow[id] IN
                /\ (now < im.timelock_start \/ now > im.timelock_end)
                      => Fails("WindowViolation")
                /\ (im.timelock_start <= now /\ now <= im.timelock_end
                    /\ secret # im.hashlock) => Fails("InvalidSecret")
        /\ cancel(caller, id) =>
            /\ ~Known(id) => Fails("NotFound")
            /\ (Known(id) /\ state[id] = "Active") =>
                LET im == escrow[id] IN
                /\ now <= im.timelock_end => Fails("WindowViolation")
                /\ (now > im.timelock_end /\ caller # im.maker)
                      => Fails("Unauthorized")]_vars

C10_Witness ==
    /\ result.op = "withdraw"
    /\ result.err = "Outside timelock window"
    /\ Known(result.id) /\ state[result.id] = "Active"
    /\ now < escrow[result.id].timelock_start

\* C11 (as claimed): create_escrow by a caller other than maker, and cancel
\* by a caller other than the stored maker, fails with Unauthorized and
\* changes nothing, at every ledger time.
C11_OtherPrincipalUnauthorized ==
    [][/\ result'.op = "create_escrow" =>
            \A caller \in Users, maker \in Makers : caller # maker =>
              \A taker \in Takers, token \in Tokens, amount \in Amounts,
                 hashlock \in Hashlocks, timelock_start \in Starts,
                 timelock_end \in Ends :
                create_escrow(caller, maker, taker, token, amount, hashlock,
                              timelock_start, timelock_end)
                => Fails("Unauthorized")
       /\ \A caller \in Users, id \in EscrowIds :
            (Known(id) /\ caller # escrow[id].maker /\ cancel(caller, id))
            => Fails("Unauthorized")]_vars

\* C11 (amended): create_escrow by a caller other than maker fails with
\* Unauthorized; cancel by a caller other than the stored maker fails at
\* every ledger time, with Unauthorized when the escrow is Active and past
\* timelock_end, with InvalidState when it is not Active and with
\* WindowViolation when it is Active and not past timelock_end; either way
\* nothing changes.
C11_OnlyMakerMovesFunds ==
    [][/\ result'.op = "create_escrow" =>
            \A caller \in Users, maker \in Makers : caller # maker =>
              \A taker \in Takers, token \in Tokens, amount \in Amounts,
                 hashlock \in Hashlocks, timelock_start \in Starts,
                 timelock_end \in Ends :
                create_escrow(caller, maker, taker, token, amount, hashlock,
                              timelock_start, timelock_end)
                => Fails("Unauthorized")
       /\ \A caller \in Users, id \in EscrowIds :
            (Known(id) /\ caller # escrow[id].maker /\ cancel(caller, id))
            => Fails(IF state[id] # "Active" THEN "InvalidState"
                     ELSE IF now <= escrow[id].timelock_end THEN "WindowViolation"
                     ELSE "Unauthorized")]_vars

C11_Witness ==
    /\ result.op = "cancel" /\ result.err = "require_auth"
    /\ Known(result.id) /\ state[result.id] = "Active"
    /\ now > escrow[result.id].timelock_end

\* C12: for a stored Active escrow the time check of withdraw and the time
\* check of cancel never both pass; at timelock_end withdraw's passes and
\* cancel's fails, one tick later cancel's passes and withdraw's fails, and
\* from timelock_start on exactly one of the two passes.
WithdrawTimeOk(id) ==
    \A caller \in Users, secret \in Secrets :
        withdraw_panic(caller, id, secret) # "Outside timelock window"
CancelTimeOk(id) ==
    \A caller \in Users : cancel_panic(caller, id) # "Timelock not expired"

C12_WindowsAdjacent ==
    \A id \in EscrowIds : (Known(id) /\ state[id] = "Active") =>
        /\ ~(WithdrawTimeOk(id) /\ CancelTimeOk(id))
        /\ now = escrow[id].timelock_end => (WithdrawTimeOk(id) /\ ~CancelTimeOk(id))
        /\ now = escrow[id].timelock_end + 1 => (CancelTimeOk(id) /\ ~WithdrawTimeOk(id))
        /\ now >= escrow[id].timelock_start => (WithdrawTimeOk(id) # CancelTimeOk(id))

\* C13: under SpecLive every deposit taken by a successful create_escrow (an
\* escrow_created event) is eventually paid out: a later escrow_withdrawn or
\* escrow_cancelled event releases the record that this create stored.
IsDeposit(i) == i \in DOMAIN events /\ events[i].topic = "escrow_created"

DepositPaidOut(i) ==
    \E j \in DOMAIN events :
        /\ j > i
        /\ events[j].topic \in {"escrow_withdrawn", "escrow_cancelled"}
        /\ events[j].data[1] = events[i].data[1]
        /\ \A k \in (i + 1)..(j - 1) :
              ~(events[k].topic = "escrow_created"
                /\ events[k].data[1] = events[i].data[1])

C13_EveryDepositPaidOut ==
    \A i \in 1..(3 * MaxEventsLive) : IsDeposit(i) ~> DepositPaidOut(i)

\* C14: the swap contract's event stream is append-only; a successful
\* create_escrow appends exactly escrow_created(id, maker, taker, token,
\* amount), a successful withdraw exactly escrow_withdrawn(id, taker, amount,
\* secret), a successful cancel exactly escrow_cancelled(id, maker, amount),
\* and a failed call appends nothing.
SwapEventsOf(log) == SelectSeq(log, LAMBDA e : e.contract = Contract)

SwapEvent(topic, data) == [contract |-> Contract, topic |-> topic, data |-> data]

Appends(e) == SwapEventsOf(events') = Append(SwapEventsOf(events), e)

C14_OneEventPerTransition ==
    [][/\ Len(events') >= Len(events)
       /\ SubSeq(events', 1, Len(events)) = events
       /\ Len(SwapEventsOf(events')) <= Len(SwapEventsOf(events)) + 1
       /\ result'.err # "ok" => events' = events
       /\ (result'.op = "create_escrow" /\ result'.err = "ok") =>
            \A maker \in Makers, taker \in Takers, token \in Tokens,
               amount \in Amounts, hashlock \in Hashlocks,
               timelock_start \in Starts, timelock_end \in Ends :
                create_escrow(maker, maker, taker, token, amount, hashlock,
                              timelock_start, timelock_end) =>
                    Appends(SwapEvent("escrow_created",
                            <<result'.id, maker, taker, token, amount>>))
       /\ (result'.op = "withdraw" /\ result'.err = "ok") =>
            \A caller \in Users, id \in EscrowIds, secret \in Secrets :
                withdraw(caller, id, secret) =>
                    Appends(SwapEvent("escrow_withdrawn",
                            <<id, escrow[id].taker, escrow[id].amount, secret>>))
       /\ (result'.op = "cancel" /\ result'.err = "ok") =>
            \A caller \in Users, id \in EscrowIds :
                cancel(caller, id) =>
                    Appends(SwapEvent("escrow_cancelled",
                            <<id, escrow[id].maker, escrow[id].amount>>))]_vars

C14_Witness ==
    /\ result = Outcome("cancel", "escrow_", "ok")
    /\ Len(SwapEventsOf(events)) = 2
    /\ SwapEventsOf(events)[1].topic = "escrow_created"
    /\ SwapEventsOf(events)[2].topic = "escrow_cancelled"

\* C15: for every Timelock built by Timelock::new and every ledger time,
\* exactly one of is_before_start, is_active and is_expired is true.
C15_ExactlyOne ==
    probe.fn = "Timelock" =>
        Cardinality({p \in {"is_before_start", "is_active", "is_expired"} :
                        probe.out[p]}) = 1

\* C16: a candidate verifies against create_hashlock(secret) exactly when it is
\* that secret, with HashlockValidator::validate and with verify_hashlock alike.
C16_HashlockSound ==
    probe.fn = "Hashlock" =>
        /\ probe.out.validate = (probe.out.candidate = probe.out.secret)
        /\ probe.out.verify_hashlock = probe.out.validate

C16_Witness ==
    /\ probe.fn = "Hashlock"
    /\ probe.out.secret = <<0, 1>>
    /\ probe.out.candidate = <<0, 1, 1>>
    /\ ~probe.out.validate

\* C17: get_escrow and get_escrow_state never fail and change neither the
\* store, a balance nor the event log; for an id no create_escrow ever
\* published they return None, and for a created id get_escrow returns the
\* stored record, whose maker, taker, token and amount are those of the last
\* creation under that id.
LastCreated(id) ==
    LET created == SelectSeq(CreatedEvents, LAMBDA e : e.data[1] = id)
    IN  IF created = <<>> THEN <<>> ELSE <<created[Len(created)].data>>

C17_PureReads ==
    [][result'.op \in {"get_escrow", "get_escrow_state"} =>
        /\ result'.err = "ok"
        /\ LedgerUnchanged
        /\ LastCreated(result'.id) = <<>> => probe'.out = <<>>
        /\ LastCreated(result'.id) # <<>> =>
             /\ Len(probe'.out) = 1
             /\ result'.op = "get_escrow" =>
                  /\ probe'.out[1] = escrow[result'.id]
                  /\ <<result'.id, probe'.out[1].maker, probe'.out[1].taker,
                       probe'.out[1].token, probe'.out[1].amount>>
                         = LastCreated(result'.id)[1]
             /\ result'.op = "get_escrow_state" =>
                  probe'.out[1] = state[result'.id]]_vars

C17_Witness ==
    /\ result = Outcome("get_escrow", "escrow_", "ok")
    /\ probe.fn = "get_escrow"
    /\ Len(probe.out) = 1
    /\ probe.out[1].taker = Contract
    /\ Len(CreatedEvents) = 2
    /\ CreatedEvents[1].data[3] = "bob"

\* C18: a Token::transfer of more than the balance of `from` fails, with
\* "Insufficient balance" when `from` authorized it, and leaves every balance
\* and the total supply as they were.
C18_InsufficientBalanceFails ==
    [][result'.op = "transfer" =>
        /\ result'.err # "ok" => UNCHANGED <<balance, total_supply, events>>
        /\ \A from \in Addresses, amount \in Amounts :
              balance_of(balance, from) < amount =>
                  /\ result'.err = "ok" =>
                        \A caller \in Callers, to \in Addresses :
                            ~transfer(caller, from, to, amount)
                  /\ \A to \in Addresses :
                        transfer(from, from, to, amount) =>
                            result'.err = "Insufficient balance"]_vars

C18_Witness ==
    /\ result = Outcome("transfer", "", "Insufficient balance")
    /\ balance["alice"] = 1
    /\ total_supply = 1

\* C19: the contract's custody balance equals the sum of the amounts of the
\* escrows whose status is Active.
RECURSIVE SumOver(_, _)
SumOver(f, S) ==
    IF S = {} THEN 0
    ELSE LET x == CHOOSE y \in S : TRUE IN f[x] + SumOver(f, S \ {x})

ActiveIds == {id \in DOMAIN state : state[id] = "Active"}

C19_CustodyConserved ==
    balance[Contract] = SumOver([id \in ActiveIds |-> escrow[id].amount], ActiveIds)

\* C20: the account balances add up to total_supply and none is negative; a
\* successful transfer leaves their sum as it was.
TotalBalance(bal) == SumOver(bal, Addresses)

C20_SupplyConserved ==
    /\ TotalBalance(balance) = total_supply
    /\ \A a \in Addresses : balance[a] >= 0

====
